---- MODULE Spec2Model ----
(***************************************************************************)
(* The compile-request pipeline of the build worker (src/src/main.rs).    *)
(* Every request runs compile_handler: collect the body, allocate a       *)
(* temporary directory, unpack the archive, run cargo, search the output  *)
(* directory and answer.  Requests run concurrently; the only shared      *)
(* state is the temporary-directory namespace of the file system.         *)
(*                                                                         *)
(* Strings, file names, file contents and bodies are sequences of         *)
(* one-byte strings, so that the substring test, the extension test and   *)
(* the lossy UTF-8 decoding are computed as the code computes them.       *)
(***************************************************************************)
EXTENDS Integers, Sequences, FiniteSets, TLC

(* ------------------------------ bounds -------------------------------- *)
NumTempNames == 2        \* names the temporary-file facility can hand out
MaxStderrLen == 2        \* longest captured standard-error stream, in bytes

Requests == {"r1", "r2"}
TempNames == 1..NumTempNames
NoDir == 0

(* --------------------------- fixed strings ---------------------------- *)
MsgCollectFailed == <<"F", "a", "i", "l", "e", "d", " ", "t", "o", " ", "c", "o", "l", "l", "e", "c", "t", " ", "b", "o", "d", "y">>
MsgTempDirError == <<"T", "e", "m", "p", " ", "d", "i", "r", " ", "e", "r", "r", "o", "r">>
MsgUnpackFailed == <<"U", "n", "p", "a", "c", "k", " ", "f", "a", "i", "l", "e", "d">>
MsgNoOutput == <<"N", "o", " ", "o", "u", "t", "p", "u", "t", " ", "f", "i", "l", "e", " ", "f", "o", "u", "n", "d">>
MsgCargoFailed == <<"C", "a", "r", "g", "o", " ", "e", "x", "e", "c", "u", "t", "i", "o", "n", " ", "f", "a", "i", "l", "e", "d">>
OctetStream == <<"a", "p", "p", "l", "i", "c", "a", "t", "i", "o", "n", "/", "o", "c", "t", "e", "t", "-", "s", "t", "r", "e", "a", "m">>
MsgQueryRejected == <<"F", "a", "i", "l", "e", "d", " ", "t", "o", " ", "d", "e", "s", "e", "r", "i", "a", "l", "i", "z", "e", " ", "q", "u", "e", "r", "y", " ", "s", "t", "r", "i", "n", "g">>
RlibExt == <<"r", "l", "i", "b">>
LibPrefix == <<"l", "i", "b">>

StatusOk == 200
StatusBadRequest == 400
StatusInternal == 500

(* ------------------------- string operations -------------------------- *)
\* str::contains: sub occurs in s as a contiguous run
Contains(s, sub) ==
  \E i \in 0..(Len(s) - Len(sub)) : SubSeq(s, i + 1, i + Len(sub)) = sub

\* Path::extension() == Some(ext): the part after the last '.', none when
\* the name has no '.' or its only '.' is the first byte
HasExtension(name, ext) ==
  \E i \in 2..Len(name) :
     /\ name[i] = "."
     /\ \A j \in (i + 1)..Len(name) : name[j] # "."
     /\ SubSeq(name, i + 1, Len(name)) = ext

\* HeaderValue::try_from(&str): visible bytes and tab only
CtlBytes == {"\n"}
HeaderValueOk(v) == \A i \in 1..Len(v) : v[i] \notin CtlBytes

\* String::from_utf8_lossy followed by to_string(): the UTF-8 bytes of the
\* decoded text.  Bytes: "e" is ASCII, "C3" leads a two-byte sequence,
\* "A9" is a continuation byte; U+FFFD encodes as EF BF BD.
Lead2Bytes == {"C3"}
ContBytes == {"A9"}
Replacement == <<"EF", "BF", "BD">>
RECURSIVE FromUtf8Lossy(_)
FromUtf8Lossy(bytes) ==
  IF bytes = <<>> THEN <<>>
  ELSE IF bytes[1] \in Lead2Bytes
       THEN IF Len(bytes) >= 2 /\ bytes[2] \in ContBytes
            THEN <<bytes[1], bytes[2]>> \o FromUtf8Lossy(Tail(Tail(bytes)))
            ELSE Replacement \o FromUtf8Lossy(Tail(bytes))
       ELSE IF bytes[1] \in ContBytes
            THEN Replacement \o FromUtf8Lossy(Tail(bytes))
            ELSE <<bytes[1]>> \o FromUtf8Lossy(Tail(bytes))

(* ------------------------------ inputs -------------------------------- *)
NameA == <<"a">>
NameAB == <<"a", "b">>
NameAdashB == <<"a", "-", "b">>
NameEmpty == <<>>
\* the values of the crate_name parameter, and the package names a manifest
\* can declare (cargo refuses an empty one)
CrateNames == {NameA, NameAdashB, NameEmpty}
PackageNames == {NameA, NameAdashB}

StderrBytes == {"e", "C3", "A9"}
RECURSIVE SeqsUpTo(_, _)
SeqsUpTo(S, n) ==
  IF n = 0 THEN {<<>>}
  ELSE LET shorter == SeqsUpTo(S, n - 1)
       IN  shorter \cup {Append(s, b) : s \in {t \in shorter : Len(t) = n - 1}, b \in S}
StderrTexts == SeqsUpTo(StderrBytes, MaxStderrLen)

\* a directory entry: name, contents, and whether fs::read succeeds on it
\* (it does not on a directory or a file without read permission)
File(name, data, readable) == [name |-> name, data |-> data, readable |-> readable]

\* files an archive can carry under target/debug before any build
NoPlaced == [deps |-> {}, debug |-> {}]
PlacedStaleLib == [deps |-> {File(<<"l", "i", "b", "a", "-", "0", ".", "r", "l", "i", "b">>, <<"s">>, TRUE)}, debug |-> {}]
PlacedDirLib == [deps |-> {File(<<"l", "i", "b", "a", ".", "r", "l", "i", "b">>, <<>>, FALSE)}, debug |-> {}]
PlacedCtlLib == [deps |-> {File(<<"l", "i", "b", "a", "\n", ".", "r", "l", "i", "b">>, <<"c">>, TRUE)}, debug |-> {}]
PlacedExe == [deps |-> {}, debug |-> {File(NameA, <<>>, TRUE)}]
PlacedFiles == {PlacedStaleLib, PlacedDirLib, PlacedCtlLib, PlacedExe}

\* an archive: whether it unpacks, the package of its manifest (name, kind,
\* whether it has the vendored library dependency "ab"), whether the
\* package compiles and what the toolchain prints when it does not, whether
\* a .cargo/config in it moves the output directory away from target/, and
\* the files it carries under target/debug
Archive(valid, pkg, kind, dep, compiles, stderr, redirect, placed) ==
  [valid |-> valid, pkg |-> pkg, kind |-> kind, dep |-> dep, compiles |-> compiles,
   stderr |-> stderr, redirect |-> redirect, placed |-> placed]
CorruptArchive == Archive(FALSE, NameA, "lib", FALSE, TRUE, <<>>, FALSE, NoPlaced)
BrokenArchive == Archive(TRUE, NameA, "lib", FALSE, FALSE, <<"e", "C3">>, FALSE, NoPlaced)
Archives ==
  {CorruptArchive}
  \cup {Archive(TRUE, p, k, d, TRUE, <<>>, rd, NoPlaced) :
          p \in PackageNames, k \in {"lib", "bin"}, d \in BOOLEAN, rd \in BOOLEAN}
  \cup {Archive(TRUE, NameA, k, FALSE, TRUE, <<>>, FALSE, pl) :
          k \in {"lib", "bin"}, pl \in PlacedFiles}
  \cup {Archive(TRUE, NameA, "lib", FALSE, FALSE, e, FALSE, NoPlaced) : e \in StderrTexts}

\* a request: the crate_name parameter and the archive of the body
Request(c, a) == [crate_name |-> c, archive |-> a]
Inputs == {Request(c, a) : c \in CrateNames, a \in Archives}

\* the requests used when two handlers run side by side: one of each outcome
ConcurrentArchives ==
  {CorruptArchive, BrokenArchive,
   Archive(TRUE, NameA, "lib", TRUE, TRUE, <<>>, FALSE, NoPlaced),
   Archive(TRUE, NameA, "bin", FALSE, TRUE, <<>>, FALSE, NoPlaced),
   Archive(TRUE, NameAdashB, "lib", FALSE, TRUE, <<>>, FALSE, NoPlaced),
   Archive(TRUE, NameA, "lib", FALSE, TRUE, <<>>, FALSE, PlacedCtlLib)}
ConcurrentInputs == {Request(c, a) : c \in CrateNames, a \in ConcurrentArchives}

(* --------------------------- file system ------------------------------ *)
\* the tree under one temporary directory
EmptyTree == [manifest |-> FALSE, pkg |-> <<>>, kind |-> "lib", dep |-> FALSE,
              compiles |-> TRUE, stderr |-> <<>>, redirect |-> FALSE,
              hasDeps |-> FALSE, deps |-> {}, debug |-> {}]

\* tar::Archive::unpack: the entries land under the directory; a corrupt
\* archive stops with an error before it has written its manifest
Unpacked(a) ==
  IF a.valid
  THEN [manifest |-> TRUE, pkg |-> a.pkg, kind |-> a.kind, dep |-> a.dep,
        compiles |-> a.compiles, stderr |-> a.stderr, redirect |-> a.redirect,
        hasDeps |-> a.placed.deps # {}, deps |-> a.placed.deps, debug |-> a.placed.debug]
  ELSE EmptyTree

(* ----------------------------- toolchain ------------------------------ *)
\* cargo's crate name: the package name with '-' turned into '_'
Underscore(name) == [i \in 1..Len(name) |-> IF name[i] = "-" THEN "_" ELSE name[i]]
HashSuffix == <<"-", "7">>
LibFileName(pkg) == LibPrefix \o Underscore(pkg) \o HashSuffix \o <<".">> \o RlibExt
DepInfoName(pkg) == LibPrefix \o Underscore(pkg) \o HashSuffix \o <<".", "d">>
LibFile(pkg) == File(LibFileName(pkg), <<"r">> \o Underscore(pkg), TRUE)
DepInfoFile(pkg) == File(DepInfoName(pkg), <<"d">>, TRUE)
ExeFile(pkg) == File(pkg, <<"x">> \o pkg, TRUE)
NoMatchText == <<"n", "o", " ", "m", "a", "t", "c", "h">>

\* `cargo build -p crate_name --offline` in the tree: exit status, captured
\* stderr and the tree it leaves behind
CargoBuild(tree, crate_name) ==
  IF ~tree.manifest \/ tree.pkg # crate_name
  THEN [success |-> FALSE, stderr |-> NoMatchText, tree |-> tree]
  ELSE IF ~tree.compiles
  THEN [success |-> FALSE, stderr |-> tree.stderr, tree |-> tree]
  ELSE IF tree.redirect
  THEN [success |-> TRUE, stderr |-> <<>>, tree |-> tree]
  ELSE LET depLibs == IF tree.dep THEN {LibFile(NameAB)} ELSE {}
           ownDeps == IF tree.kind = "lib"
                      THEN {LibFile(tree.pkg), DepInfoFile(tree.pkg)}
                      ELSE {}
           ownExe  == IF tree.kind = "bin" THEN {ExeFile(tree.pkg)} ELSE {}
           written == {f.name : f \in ownExe}
       IN  [success |-> TRUE, stderr |-> <<>>,
            tree |-> [tree EXCEPT !.hasDeps = TRUE,
                                  !.deps = @ \cup depLibs \cup ownDeps,
                                  !.debug = {f \in @ : f.name \notin written} \cup ownExe]]

(* ----------------------------- responses ------------------------------ *)
NoResponse == [status |-> 0, headers |-> {}, body |-> <<>>]

\* error_response(status, message)
error_response(status, message) ==
  [status |-> status, headers |-> {}, body |-> message]

\* a builder chain without the Content-Type header
artifact_response_untyped(header, value, binary) ==
  [status |-> 200, headers |-> {<<header, value>>}, body |-> binary]

\* Response::builder().status(OK).header("Content-Type", ..).header(h, v).body(..)
artifact_response(header, value, binary) ==
  [status |-> StatusOk,
   headers |-> {<<"Content-Type", OctetStream>>, <<header, value>>},
   body |-> binary]

HeaderNames(r) == {h[1] : h \in r.headers}
HeaderValue(r, name) == (CHOOSE h \in r.headers : h[1] = name)[2]

(* --------------------------- artifact search -------------------------- *)
\* the test of lines 81-82 on one directory entry
RlibMatches(name, crate_name) ==
  /\ HasExtension(name, RlibExt)
  /\ Contains(name, LibPrefix \o crate_name)

\* the loop of lines 79-94 over the listing `entries`: the first entry that
\* matches and can be read
NotFound == [found |-> FALSE, file |-> File(<<>>, <<>>, FALSE)]
RECURSIVE FirstRlib(_, _)
FirstRlib(entries, crate_name) ==
  IF entries = <<>> THEN NotFound
  ELSE IF RlibMatches(entries[1].name, crate_name) /\ entries[1].readable
       THEN [found |-> TRUE, file |-> entries[1]]
       ELSE FirstRlib(Tail(entries), crate_name)

\* fs::read_dir: the entries of the directory in an order the platform picks
Listings(dir) ==
  {l \in [1..Cardinality(dir) -> dir] : \A i, j \in 1..Cardinality(dir) : l[i] = l[j] => i = j}

\* lines 98-108: the file target/debug/<crate_name>, when it exists and reads
ExeLookup(tree, crate_name) ==
  LET hits == {f \in tree.debug : f.name = crate_name /\ f.readable}
  IN  IF hits = {} THEN NotFound
      ELSE [found |-> TRUE, file |-> CHOOSE f \in hits : TRUE]

\* line 78: read_dir(target/debug/deps) fails when the directory is missing,
\* and the loop is skipped
LibLookup(tree, crate_name, listing) ==
  IF tree.hasDeps THEN FirstRlib(listing, crate_name) ELSE NotFound

\* a fall-through that answers 200 with an empty body when nothing was found
ArmResultEmpty(lib, exe, crate_name) ==
  IF lib.found
  THEN [panics |-> ~HeaderValueOk(lib.file.name),
        resp |-> artifact_response("X-Rlib-File", lib.file.name, lib.file.data)]
  ELSE IF exe.found
  THEN [panics |-> ~HeaderValueOk(crate_name),
        resp |-> artifact_response("X-Binary-File", crate_name, exe.file.data)]
  ELSE [panics |-> FALSE, resp |-> artifact_response("X-Binary-File", crate_name, <<>>)]

\* lines 84-111: the answer for what the two lookups found; panics is TRUE
\* when Response::builder()...unwrap() aborts the handler on a header value
\* the http crate rejects
ArmResult(lib, exe, crate_name) ==
  IF lib.found
  THEN [panics |-> ~HeaderValueOk(lib.file.name),
        resp |-> artifact_response("X-Rlib-File", lib.file.name, lib.file.data)]
  ELSE IF exe.found
  THEN [panics |-> ~HeaderValueOk(crate_name),
        resp |-> artifact_response("X-Binary-File", crate_name, exe.file.data)]
  ELSE [panics |-> FALSE, resp |-> error_response(StatusInternal, MsgNoOutput)]

\* lines 74-112: the success arm for one directory listing
SuccessArm(tree, crate_name, listing) ==
  ArmResult(LibLookup(tree, crate_name, listing), ExeLookup(tree, crate_name), crate_name)

(* ------------------------------- state -------------------------------- *)
VARIABLES
  pc,      \* where each request's handler stands
  req,     \* the request: crate_name and the archive of its body
  fs,      \* the temporary-directory namespace: directory name -> tree
  ws,      \* temp_dir of each handler (NoDir before tempdir())
  output,  \* the result of Command::output() of each handler
  resp,    \* the response each handler has built
  did      \* history: how often each handler read a body, allocated, unpacked, ran cargo, searched

vars == <<pc, req, fs, ws, output, resp, did>>

NoRequest == [crate_name |-> <<>>, archive |-> CorruptArchive]
NoOutput == [launched |-> FALSE, success |-> FALSE, stderr |-> <<>>]
NoHistory == [collect |-> 0, alloc |-> 0, unpack |-> 0, cargo |-> 0, search |-> 0]

Init ==
  /\ pc = [r \in Requests |-> "idle"]
  /\ req = [r \in Requests |-> NoRequest]
  /\ fs = << >>
  /\ ws = [r \in Requests |-> NoDir]
  /\ output = [r \in Requests |-> NoOutput]
  /\ resp = [r \in Requests |-> NoResponse]
  /\ did = [r \in Requests |-> NoHistory]

\* the file system with directory d holding tree t / without directory d
WithDir(f, d, t) == [x \in (DOMAIN f) \cup {d} |-> IF x = d THEN t ELSE f[x]]
WithoutDir(f, d) == [x \in (DOMAIN f) \ {d} |-> f[x]]

\* a return statement: the response is fixed, the locals are still alive
Answer(r, response) ==
  /\ resp' = [resp EXCEPT ![r] = response]
  /\ pc' = [pc EXCEPT ![r] = "return"]

(* ------------------------------ actions ------------------------------- *)
\* a POST /compile?crate_name=.. arrives, the parameter (any string, the
\* empty one included) is bound to params.crate_name and compile_handler starts
Receive(r, inputs) ==
  /\ pc[r] = "idle"
  /\ \E i \in inputs : req' = [req EXCEPT ![r] = i]
  /\ pc' = [pc EXCEPT ![r] = "collect"]
  /\ UNCHANGED <<fs, ws, output, resp, did>>

\* line 39: a POST /compile without a crate_name parameter; the Query
\* extractor answers 400 and compile_handler is not entered
RejectQuery(r) ==
  /\ pc[r] = "idle"
  /\ resp' = [resp EXCEPT ![r] = error_response(StatusBadRequest, MsgQueryRejected)]
  /\ pc' = [pc EXCEPT ![r] = "rejected"]
  /\ UNCHANGED <<req, fs, ws, output, did>>

\* lines 44-45: the body is read in full
CollectOk(r) ==
  /\ pc[r] = "collect"
  /\ did' = [did EXCEPT ![r].collect = @ + 1]
  /\ pc' = [pc EXCEPT ![r] = "tempdir"]
  /\ UNCHANGED <<req, fs, ws, output, resp>>

\* lines 46-49: the body stream fails
CollectErr(r) ==
  /\ pc[r] = "collect"
  /\ Answer(r, error_response(StatusBadRequest, MsgCollectFailed))
  /\ UNCHANGED <<req, fs, ws, output, did>>

\* a name generator that does not look at what exists
FreshNamesAny(f) == TempNames

\* the name tempdir() creates: one that does not exist yet
FreshNames(f) == TempNames \ DOMAIN f

\* a handler that keeps only the path: the TempDir is dropped, and the
\* directory removed, as soon as it is created
TempDirOkDropped(r) ==
  /\ pc[r] = "tempdir"
  /\ \E d \in FreshNames(fs) :
       /\ fs' = fs
       /\ ws' = [ws EXCEPT ![r] = d]
  /\ did' = [did EXCEPT ![r].alloc = @ + 1]
  /\ pc' = [pc EXCEPT ![r] = "unpack"]
  /\ UNCHANGED <<req, output, resp>>

\* lines 53-54: tempdir() creates a directory under a name not in use
TempDirOk(r) ==
  /\ pc[r] = "tempdir"
  /\ \E d \in FreshNames(fs) :
       /\ fs' = WithDir(fs, d, EmptyTree)
       /\ ws' = [ws EXCEPT ![r] = d]
  /\ did' = [did EXCEPT ![r].alloc = @ + 1]
  /\ pc' = [pc EXCEPT ![r] = "unpack"]
  /\ UNCHANGED <<req, output, resp>>

\* line 55: tempdir() fails
TempDirErr(r) ==
  /\ pc[r] = "tempdir"
  /\ Answer(r, error_response(StatusInternal, MsgTempDirError))
  /\ UNCHANGED <<req, fs, ws, output, did>>

\* line 59, Ok: the archive is unpacked into temp_dir
UnpackOk(r) ==
  /\ pc[r] = "unpack"
  /\ req[r].archive.valid
  /\ fs' = [fs EXCEPT ![ws[r]] = Unpacked(req[r].archive)]
  /\ did' = [did EXCEPT ![r].unpack = @ + 1]
  /\ pc' = [pc EXCEPT ![r] = "cargo"]
  /\ UNCHANGED <<req, ws, output, resp>>

\* an unpack error that is logged and not returned
UnpackErrIgnored(r) ==
  /\ pc[r] = "unpack"
  /\ ~req[r].archive.valid
  /\ fs' = [fs EXCEPT ![ws[r]] = Unpacked(req[r].archive)]
  /\ did' = [did EXCEPT ![r].unpack = @ + 1]
  /\ pc' = [pc EXCEPT ![r] = "cargo"]
  /\ UNCHANGED <<req, ws, output, resp>>

\* lines 59-62, Err: unpacking fails
UnpackErr(r) ==
  /\ pc[r] = "unpack"
  /\ ~req[r].archive.valid
  /\ fs' = [fs EXCEPT ![ws[r]] = Unpacked(req[r].archive)]
  /\ did' = [did EXCEPT ![r].unpack = @ + 1]
  /\ Answer(r, error_response(StatusBadRequest, MsgUnpackFailed))
  /\ UNCHANGED <<req, ws, output>>

\* lines 65-71, Ok: cargo runs in temp_dir and exits
CargoRun(r) ==
  /\ pc[r] = "cargo"
  /\ LET res == CargoBuild(fs[ws[r]], req[r].crate_name)
     IN  /\ fs' = [fs EXCEPT ![ws[r]] = res.tree]
         /\ output' = [output EXCEPT ![r] =
                         [launched |-> TRUE, success |-> res.success, stderr |-> res.stderr]]
  /\ did' = [did EXCEPT ![r].cargo = @ + 1]
  /\ pc' = [pc EXCEPT ![r] = "match"]
  /\ UNCHANGED <<req, ws, resp>>

\* lines 65-71, Err: the cargo process cannot be started
CargoLaunchErr(r) ==
  /\ pc[r] = "cargo"
  /\ output' = [output EXCEPT ![r] = [launched |-> FALSE, success |-> FALSE, stderr |-> <<>>]]
  /\ did' = [did EXCEPT ![r].cargo = @ + 1]
  /\ pc' = [pc EXCEPT ![r] = "match"]
  /\ UNCHANGED <<req, fs, ws, resp>>

\* a match arm `Ok(o) =>` without the guard on the exit status
ArmIsSuccessUnguarded(o) == o.launched

\* whether the success arm of the match at line 73 is taken
ArmIsSuccess(o) == o.launched /\ o.success

\* lines 74-112: cargo succeeded; search the output and answer
ArmSuccess(r) ==
  /\ pc[r] = "match"
  /\ ArmIsSuccess(output[r])
  /\ \E listing \in Listings(fs[ws[r]].deps) :
       LET res == SuccessArm(fs[ws[r]], req[r].crate_name, listing)
       IN  IF res.panics
           THEN /\ pc' = [pc EXCEPT ![r] = "unwind"]
                /\ resp' = resp
           ELSE Answer(r, res.resp)
  /\ did' = [did EXCEPT ![r].search = @ + 1]
  /\ UNCHANGED <<req, fs, ws, output>>

\* a failure arm that answers with a fixed message
FailureBodyFixed(stderr) == <<"C", "o", "m", "p", "i", "l", "a", "t", "i", "o", "n", " ", "f", "a", "i", "l", "e", "d">>

\* the body of the failure response of lines 114-118
FailureBody(stderr) == FromUtf8Lossy(stderr)

\* a failure arm that runs the build again
ArmFailureRetry(r) ==
  /\ pc[r] = "match"
  /\ output[r].launched /\ ~ArmIsSuccess(output[r])
  /\ pc' = [pc EXCEPT ![r] = "cargo"]
  /\ UNCHANGED <<req, fs, ws, output, resp, did>>

\* lines 114-118: cargo exited with a failure status
ArmFailure(r) ==
  /\ pc[r] = "match"
  /\ output[r].launched /\ ~ArmIsSuccess(output[r])
  /\ Answer(r, error_response(StatusInternal, FailureBody(output[r].stderr)))
  /\ UNCHANGED <<req, fs, ws, output, did>>

\* one arm for every unsuccessful result: the launch error answered like a
\* failed build, with the (empty) captured stderr
ArmLaunchErrAsFailure(r) ==
  /\ pc[r] = "match"
  /\ ~output[r].launched
  /\ Answer(r, error_response(StatusInternal, FromUtf8Lossy(output[r].stderr)))
  /\ UNCHANGED <<req, fs, ws, output, did>>

\* lines 120-123: cargo could not be started
ArmLaunchErr(r) ==
  /\ pc[r] = "match"
  /\ ~output[r].launched
  /\ Answer(r, error_response(StatusInternal, MsgCargoFailed))
  /\ UNCHANGED <<req, fs, ws, output, did>>

\* a handler that keeps the directory (TempDir::into_path) never removes it
DropTempDirKept(f, d) == f

\* Drop of temp_dir: the directory and everything under it is removed
DropTempDir(f, d) == IF d = NoDir THEN f ELSE WithoutDir(f, d)

\* the handler returns: its locals are dropped and the response goes out
Return(r) ==
  /\ pc[r] = "return"
  /\ fs' = DropTempDir(fs, ws[r])
  /\ pc' = [pc EXCEPT ![r] = "done"]
  /\ UNCHANGED <<req, ws, output, resp, did>>

\* the handler panicked: the stack unwinds, no response goes out
Unwind(r) ==
  /\ pc[r] = "unwind"
  /\ fs' = DropTempDir(fs, ws[r])
  /\ pc' = [pc EXCEPT ![r] = "aborted"]
  /\ UNCHANGED <<req, ws, output, resp, did>>

Step(r, inputs) ==
    \/ Receive(r, inputs)
    \/ RejectQuery(r)
    \/ CollectOk(r)
    \/ CollectErr(r)
    \/ TempDirOk(r)
    \/ TempDirErr(r)
    \/ UnpackOk(r)
    \/ UnpackErr(r)
    \/ CargoRun(r)
    \/ CargoLaunchErr(r)
    \/ ArmSuccess(r)
    \/ ArmFailure(r)
    \/ ArmLaunchErr(r)
    \/ Return(r)
    \/ Unwind(r)

\* two handlers running concurrently
Next == \E r \in Requests : Step(r, ConcurrentInputs)
Spec == Init /\ [][Next]_vars

\* one handler, every input
NextSolo == Step("r1", Inputs)
SpecSolo == Init /\ [][NextSolo]_vars

(* ============================== claims ================================ *)
\* the handler holds a temporary directory
Live(r) == ws[r] # NoDir /\ pc[r] \in {"unpack", "cargo", "match", "return", "unwind"}
\* the handler is over: answered, or aborted by a panic
Finished(r) == pc[r] \in {"done", "aborted"}
\* the handler has fixed its response (or panicked) after the search
Decided(r) == pc[r] \in {"return", "unwind"}
HasHeader(response, name) == name \in HeaderNames(response)
ArtifactHeaders == {"X-Rlib-File", "X-Binary-File"}

\* C1: every directory that exists in the temporary namespace is the
\* temp_dir of a handler that has not returned yet; so once a handler has
\* returned (or unwound), on whatever path, its workspace is gone.
C1_NoWorkspaceOutlivesRequest ==
  \A d \in DOMAIN fs : \E r \in Requests : Live(r) /\ ws[r] = d

\* a handler that allocated a workspace and built an artifact has returned,
\* and nothing is left in the namespace
C1_Witness ==
  \E r \in Requests :
     /\ pc[r] = "done" /\ did[r].alloc = 1 /\ resp[r].status = StatusOk
     /\ DOMAIN fs = {}

\* the request builds a library package under its own name, into target/,
\* from an archive that is one package's sources and nothing else
BuildsLibrary(r) ==
  /\ req[r].archive.placed = NoPlaced /\ ~req[r].archive.dep
  /\ req[r].archive.valid /\ req[r].archive.compiles /\ ~req[r].archive.redirect
  /\ req[r].archive.kind = "lib" /\ req[r].archive.pkg = req[r].crate_name
  /\ output[r].launched /\ output[r].success

\* C2 (as claimed): a request whose toolchain run built the library target
\* ends with status 200, X-Rlib-File naming the library file the toolchain
\* wrote for the target, and a non-empty body.
C2_LibrarySuccess ==
  \A r \in Requests :
     Finished(r) /\ BuildsLibrary(r) =>
        /\ pc[r] = "done"
        /\ resp[r].status = StatusOk
        /\ <<"X-Rlib-File", LibFileName(req[r].crate_name)>> \in resp[r].headers
        /\ resp[r].body # <<>>

\* the request builds an executable package under its own name, into
\* target/, from an archive that carries sources only
BuildsExecutable(r) ==
  /\ req[r].archive.placed = NoPlaced
  /\ req[r].archive.valid /\ req[r].archive.compiles /\ ~req[r].archive.redirect
  /\ req[r].archive.kind = "bin" /\ req[r].archive.pkg = req[r].crate_name
  /\ output[r].launched /\ output[r].success

\* C3 (as claimed): a request whose toolchain run built the executable
\* target ends with status 200, X-Binary-File equal to the target name and
\* a non-empty body, whatever libraries are in target/debug/deps.
C3_ExecutableSuccess ==
  \A r \in Requests :
     Finished(r) /\ BuildsExecutable(r) =>
        /\ pc[r] = "done"
        /\ resp[r].status = StatusOk
        /\ <<"X-Binary-File", req[r].crate_name>> \in resp[r].headers
        /\ resp[r].body # <<>>

\* C4: a 200 status or an artifact header appears only in the response of
\* a handler whose cargo process was started and exited successfully, and
\* only such a handler searches the output directory.
C4_ArtifactOnlyAfterSuccess ==
  \A r \in Requests :
     (\/ resp[r].status = StatusOk
      \/ HeaderNames(resp[r]) \cap ArtifactHeaders # {}
      \/ did[r].search > 0)
     => output[r].launched /\ output[r].success

\* a handler whose cargo run exited with a failure status has answered
C4_Witness ==
  \E r \in Requests :
     /\ pc[r] = "done" /\ output[r].launched /\ ~output[r].success
     /\ resp[r].status = StatusInternal /\ did[r].search = 0

\* the file with the given name in a directory has exactly these bytes
HoldsFile(dir, name, bytes) ==
  /\ \E f \in dir : f.name = name
  /\ \A f \in dir : f.name = name => f.data = bytes

\* C5: a 200 response has Content-Type application/octet-stream and exactly
\* one of X-Rlib-File and X-Binary-File, and its body is the contents of the
\* file that header names (in target/debug/deps, resp. target/debug); any
\* other response has neither header.
C5_SuccessResponseShape ==
  \A r \in Requests :
     IF resp[r].status = StatusOk
     THEN /\ <<"Content-Type", OctetStream>> \in resp[r].headers
          /\ Cardinality(resp[r].headers) = 2
          /\ Cardinality(HeaderNames(resp[r]) \cap ArtifactHeaders) = 1
          /\ pc[r] = "return" /\ HasHeader(resp[r], "X-Rlib-File") =>
               HoldsFile(fs[ws[r]].deps, HeaderValue(resp[r], "X-Rlib-File"), resp[r].body)
          /\ pc[r] = "return" /\ HasHeader(resp[r], "X-Binary-File") =>
               HoldsFile(fs[ws[r]].debug, HeaderValue(resp[r], "X-Binary-File"), resp[r].body)
     ELSE HeaderNames(resp[r]) \cap ArtifactHeaders = {}

\* a 200 response carrying a library is about to go out
C5_Witness ==
  /\ pc["r1"] = "return" /\ HasHeader(resp["r1"], "X-Rlib-File")
  /\ resp["r1"].status = StatusOk /\ resp["r1"].body # <<>>

\* C6: a request whose archive failed to unpack is answered with status 400
\* and a non-empty body, and cargo was never run for it.
C6_ExtractionFailure ==
  \A r \in Requests :
     did[r].unpack > 0 /\ ~req[r].archive.valid =>
        /\ did[r].cargo = 0
        /\ pc[r] \in {"return", "done"}
        /\ resp[r].status = StatusBadRequest
        /\ resp[r].body # <<>>

\* a corrupt archive has been answered
C6_Witness ==
  \E r \in Requests :
     pc[r] = "done" /\ did[r].unpack = 1 /\ ~req[r].archive.valid

\* a byte string that is well-formed UTF-8
RECURSIVE ValidUtf8(_)
ValidUtf8(bytes) ==
  \/ bytes = <<>>
  \/ /\ bytes[1] \notin Lead2Bytes \cup ContBytes
     /\ ValidUtf8(Tail(bytes))
  \/ /\ Len(bytes) >= 2 /\ bytes[1] \in Lead2Bytes /\ bytes[2] \in ContBytes
     /\ ValidUtf8(Tail(Tail(bytes)))

\* cargo ran for the request and exited with a failure status
BuildFailed(r) == output[r].launched /\ ~output[r].success

\* C7 (as claimed): a request whose cargo run exited non-zero is answered
\* with status 500 and a body equal to the captured standard error.
C7_StderrVerbatim ==
  \A r \in Requests :
     Finished(r) /\ BuildFailed(r) =>
        /\ resp[r].status = StatusInternal
        /\ resp[r].body = output[r].stderr

\* C7 (amended): a request whose cargo run exited non-zero is answered with
\* status 500, no artifact header, and a body that is the captured standard
\* error decoded lossily as UTF-8: equal to it when it is well-formed UTF-8,
\* and otherwise with each ill-formed byte replaced by U+FFFD.
C7_StderrLossy ==
  \A r \in Requests :
     Finished(r) /\ BuildFailed(r) =>
        /\ pc[r] = "done"
        /\ resp[r].status = StatusInternal
        /\ resp[r].headers = {}
        /\ ValidUtf8(output[r].stderr) => resp[r].body = output[r].stderr
        /\ resp[r].body = FromUtf8Lossy(output[r].stderr)
        /\ ValidUtf8(resp[r].body)

\* a failed build whose stderr is not UTF-8 has been answered with other bytes
C7_Witness ==
  \E r \in Requests :
     /\ pc[r] = "done" /\ BuildFailed(r)
     /\ ~ValidUtf8(output[r].stderr)
     /\ resp[r].body # output[r].stderr
     /\ Contains(resp[r].body, Replacement)

\* the library pattern of the search: extension rlib, name containing
\* lib<crate_name>
LibraryPattern(name, crate_name) ==
  /\ Len(name) > 5
  /\ SubSeq(name, Len(name) - 4, Len(name)) = <<".">> \o RlibExt
  /\ \E i \in 1..(Len(name) - Len(crate_name) - 2) :
        SubSeq(name, i, i + 2 + Len(crate_name)) = LibPrefix \o crate_name

\* the workspace of r holds neither a library match nor the executable
NothingToFind(r) ==
  /\ \/ ~fs[ws[r]].hasDeps
     \/ \A f \in fs[ws[r]].deps : ~LibraryPattern(f.name, req[r].crate_name)
  /\ \A f \in fs[ws[r]].debug : f.name # req[r].crate_name

\* C8: when cargo succeeded and the workspace holds neither a file matching
\* the library pattern in target/debug/deps nor target/debug/<crate_name>,
\* the handler does not panic and answers 500 "No output file found".
C8_ArtifactNotFound ==
  \A r \in Requests :
     Decided(r) /\ did[r].search > 0 /\ NothingToFind(r) =>
        /\ pc[r] = "return"
        /\ resp[r] = [status |-> StatusInternal, headers |-> {}, body |-> MsgNoOutput]

\* cargo built a library under another name than the caller's target name
C8_Witness ==
  \E r \in Requests :
     /\ pc[r] = "return" /\ did[r].search = 1 /\ NothingToFind(r)
     /\ fs[ws[r]].deps # {}
     /\ resp[r].status = StatusInternal

\* cargo succeeded without writing target/debug/deps at all
C8_WitnessNoDeps ==
  \E r \in Requests :
     /\ pc[r] = "return" /\ did[r].search = 1 /\ ~fs[ws[r]].hasDeps
     /\ resp[r].body = MsgNoOutput

\* what the request gets when it runs alone on an empty namespace: the
\* toolchain result on the unpacked archive, and the answers of the success
\* arm over the listings of the directory cargo leaves
AloneBuild(i) == CargoBuild(Unpacked(i.archive), i.crate_name)
AloneAnswers(i) ==
  {SuccessArm(AloneBuild(i).tree, i.crate_name, l) : l \in Listings(AloneBuild(i).tree.deps)}

\* the handlers that hold a directory hold different ones
DistinctWorkspaces ==
  \A r, q \in Requests : r # q /\ Live(r) /\ Live(q) => ws[r] # ws[q]

\* what a finished handler answered is what it answers alone, given how far
\* its environment let it get
AnswersAsAlone ==
  \A r \in Requests :
     Finished(r) =>
        IF did[r].alloc = 0
        THEN resp[r] \in {error_response(StatusBadRequest, MsgCollectFailed),
                          error_response(StatusInternal, MsgTempDirError)}
        ELSE IF ~req[r].archive.valid
        THEN resp[r] = error_response(StatusBadRequest, MsgUnpackFailed)
        ELSE IF ~output[r].launched
        THEN resp[r] = error_response(StatusInternal, MsgCargoFailed)
        ELSE /\ output[r].success = AloneBuild(req[r]).success
             /\ output[r].stderr = AloneBuild(req[r]).stderr
             /\ IF output[r].success
                THEN \E res \in AloneAnswers(req[r]) :
                        IF res.panics
                        THEN pc[r] = "aborted" /\ resp[r] = NoResponse
                        ELSE pc[r] = "done" /\ resp[r] = res.resp
                ELSE resp[r] = error_response(StatusInternal, FromUtf8Lossy(AloneBuild(req[r]).stderr))

\* a step of one handler leaves the directory of every other handler as it was
StepsStayInOwnWorkspace ==
  \A r, q \in Requests :
     r # q /\ pc'[r] # pc[r] /\ Live(q) =>
        /\ ws[q] \in DOMAIN fs'
        /\ fs'[ws[q]] = fs[ws[q]]

\* C9: two handlers running concurrently always hold distinct temporary
\* directories, no step of one changes or removes the directory of the
\* other, and each ends with the answer it gets when it runs alone.
C9_Isolation ==
  /\ [](DistinctWorkspaces /\ AnswersAsAlone)
  /\ [][StepsStayInOwnWorkspace]_vars

\* two handlers held directories at the same time and both built an artifact
C9_Witness ==
  /\ pc["r1"] = "done" /\ pc["r2"] = "return"
  /\ did["r1"].search = 1 /\ did["r2"].search = 1
  /\ req["r1"] # req["r2"]
  /\ resp["r1"].status = StatusOk /\ resp["r2"].status = StatusOk
  /\ ws["r1"] # ws["r2"]

\* C10 (as claimed): two requests with the same target name and the same
\* archive (sources only), for which the toolchain was started, end the
\* same way: same status, same headers, same body.
C10_Idempotent ==
  \A r, q \in Requests :
     /\ Finished(r) /\ Finished(q)
     /\ req[r] = req[q] /\ req[r].archive.placed = NoPlaced
     /\ output[r].launched /\ output[q].launched
     => pc[r] = pc[q] /\ resp[r] = resp[q]

\* C11 (as claimed): every request ends with exactly one response, of
\* status 200, 400 or 500; no handler ends without one.
C11_AlwaysAnswered ==
  \A r \in Requests :
     /\ pc[r] # "aborted"
     /\ pc[r] \in {"done", "rejected"} =>
          resp[r].status \in {StatusOk, StatusBadRequest, StatusInternal}

\* the handler has fixed an answer and stopped
Stopped(r) == pc[r] \in {"return", "done"}

\* the bodies a failed build can be answered with
BuildFailureBodies == {FromUtf8Lossy(e) : e \in StderrTexts \cup {NoMatchText}}

C12_WitnessBody ==
  \E r \in Requests :
     pc[r] = "return" /\ did[r].collect = 0 /\ resp[r].status = StatusBadRequest

\* a tempdir() failure is about to be answered
C12_WitnessTempDir ==
  \E r \in Requests :
     /\ pc[r] = "return" /\ did[r].collect = 1 /\ did[r].alloc = 0
     /\ resp[r].status = StatusInternal

\* C13 (as claimed): a request whose crate_name is absent or empty is
\* rejected with status 400; no handler allocates a workspace or runs cargo
\* for an empty target name.
C13_NonEmptyTarget ==
  \A r \in Requests :
     /\ did[r].alloc > 0 \/ did[r].cargo > 0 => req[r].crate_name # NameEmpty
     /\ pc[r] = "rejected" =>
          resp[r].status = StatusBadRequest /\ did[r].alloc = 0 /\ did[r].cargo = 0

\* the entries of target/debug/deps of r's workspace that match the pattern
LibraryMatches(r) ==
  IF fs[ws[r]].hasDeps
  THEN {f \in fs[ws[r]].deps : LibraryPattern(f.name, req[r].crate_name)}
  ELSE {}

\* C14 (as claimed, where the selection does not depend on the listing
\* order): when every file matching the library pattern cannot be read, the
\* first match is unreadable and the handler answers 500 with a failure
\* other than "No output file found".
C14_ArtifactReadError ==
  \A r \in Requests :
     /\ Decided(r) /\ did[r].search > 0
     /\ LibraryMatches(r) # {}
     /\ \A f \in LibraryMatches(r) : ~f.readable
     => /\ pc[r] = "return"
        /\ resp[r].status = StatusInternal
        /\ resp[r].body # MsgNoOutput

\* C15 (as claimed): whenever cargo succeeded and target/debug/deps holds a
\* file matching the library pattern (under a name a header can carry), the
\* answer is the library one: status 200 with X-Rlib-File, never
\* X-Binary-File nor "No output file found".
C15_LibraryFirst ==
  \A r \in Requests :
     /\ Decided(r) /\ did[r].search > 0
     /\ LibraryMatches(r) # {}
     /\ \A f \in LibraryMatches(r) : HeaderValueOk(f.name)
     =>
        /\ pc[r] = "return"
        /\ resp[r].status = StatusOk
        /\ HasHeader(resp[r], "X-Rlib-File")

\* C16: no handler allocates, unpacks, runs cargo or searches more than once.
C16_NoRetry ==
  \A r \in Requests :
     /\ did[r].collect <= 1 /\ did[r].alloc <= 1 /\ did[r].unpack <= 1
     /\ did[r].cargo <= 1 /\ did[r].search <= 1

\* a failed build has been answered after a single cargo run
C16_Witness ==
  \E r \in Requests :
     /\ pc[r] = "done" /\ BuildFailed(r)
     /\ did[r].alloc = 1 /\ did[r].unpack = 1 /\ did[r].cargo = 1

\* a library file of the target: lib<target>, the hash separator, .rlib
IsLibraryOf(name, crate_name) ==
  /\ HasExtension(name, RlibExt)
  /\ Len(name) > Len(crate_name) + 3
  /\ SubSeq(name, 1, Len(crate_name) + 3) = LibPrefix \o crate_name
  /\ name[Len(crate_name) + 4] = "-"

\* C17 (as claimed): a file named by X-Rlib-File is an entry of
\* target/debug/deps with extension rlib whose name starts with lib<target>
\* and goes on with the hash, not with more of another target's name.
C17_LibraryOfTarget ==
  \A r \in Requests :
     pc[r] = "return" /\ HasHeader(resp[r], "X-Rlib-File") =>
        /\ \E f \in fs[ws[r]].deps : f.name = HeaderValue(resp[r], "X-Rlib-File")
        /\ IsLibraryOf(HeaderValue(resp[r], "X-Rlib-File"), req[r].crate_name)

\* the files the archive of r carried under target/debug
PlacedByArchive(r) == req[r].archive.placed.deps \cup req[r].archive.placed.debug

\* C18 (as claimed): the artifact of a 200 response is not a file the
\* archive carried under target/debug.
C18_ProducedByToolchain ==
  \A r \in Requests :
     resp[r].status = StatusOk =>
        \A f \in PlacedByArchive(r) :
           \A h \in resp[r].headers : ~(h[2] = f.name /\ resp[r].body = f.data)

\* while the handler unpacks, builds, searches and answers, its directory exists
WorkspaceDuringUse ==
  \A r \in Requests :
     ws[r] # NoDir /\ pc[r] \in {"unpack", "cargo", "match", "return", "unwind"} =>
        ws[r] \in DOMAIN fs

\* a 200 response holds the bytes of its file while the file still exists
BodyReadBeforeDrop ==
  \A r \in Requests :
     pc[r] = "return" /\ resp[r].status = StatusOk =>
        \E f \in fs[ws[r]].deps \cup fs[ws[r]].debug : f.data = resp[r].body

\* the step that removes a handler's directory is that handler's last one,
\* and leaves its response as it was
DropIsLast ==
  \A r \in Requests :
     pc'[r] # pc[r] /\ ws[r] \in DOMAIN fs /\ ws[r] \notin DOMAIN fs' =>
        /\ pc'[r] \in {"done", "aborted"}
        /\ resp'[r] = resp[r]

\* C19: the artifact is in the response body before the workspace is
\* removed, and the workspace is removed only by the handler's last step,
\* after every access to it.
C19_ReadBeforeCleanup ==
  /\ [](WorkspaceDuringUse /\ BodyReadBeforeDrop)
  /\ [][DropIsLast]_vars

\* an executable has been returned and its workspace is gone
C19_Witness ==
  \E r \in Requests :
     /\ pc[r] = "done" /\ resp[r].status = StatusOk
     /\ HasHeader(resp[r], "X-Binary-File") /\ resp[r].body # <<>>
     /\ ws[r] \notin DOMAIN fs

====
